---- MODULE Spec2Model ----
\* Request dispatch of packages/integrations/node/src/http-server.ts:
\* the listener built by createServer decides, per request, between streaming
\* a static file (through the `send` stream), redirecting, answering 400/500
\* and delegating to the rendering handler; and the life of the server it
\* creates: the choice of transport, listen, the closed promise, stop().
\*
\* Strings of the program are sequences of tokens: "/" and "?" are the
\* delimiters the code looks at, every other token is the text of one path
\* segment (or of one query component).
EXTENDS Integers, Sequences, FiniteSets, TLC

VARIABLES trailingSlash, req, server

vars == <<trailingSlash, req, server>>

\* ------------------------------------------------------------------ bounds
\* Longest request path, in segments.
MaxSegs == 3

\* Most calls of stop() on one server handle.
MaxStops == 2

\* Most 'error' events one server emits.
MaxErrors == 1

\* ------------------------------------------------------------- the inputs
\* The text of one path segment of a request target.
Segments ==
  {"docs", "empty", "_astro", "app.js", ".well-known", ".env", "..",
   "%E0%A4%A", "%64ocs", "missing", "base"}

\* The query suffixes of a request target.
Queries == {<<>>, <<"?", "q">>, <<"?", "q", "?", "r">>}

RECURSIVE JoinSegs(_)
JoinSegs(segs) ==
  IF segs = <<>> THEN <<>> ELSE <<"/", Head(segs)>> \o JoinSegs(Tail(segs))

PathOf(segs, slash) ==
  IF segs = <<>> THEN <<"/">>
  ELSE JoinSegs(segs) \o (IF slash THEN <<"/">> ELSE <<>>)

SegSeqs == UNION {[1..n -> Segments] : n \in 0..MaxSegs}

\* Request targets: origin-form paths with an optional query, and the
\* target "//" (an empty authority), which URL construction rejects.
Targets ==
  {PathOf(s, sl) \o q : s \in SegSeqs, sl \in BOOLEAN, q \in Queries}
    \cup {<<"/", "/">> \o q : q \in Queries}

\* req.url of an incoming message; <<>> is the absent (falsy) url.
Urls == Targets \cup {<<>>}

Policies == {"never", "ignore", "always", "undefined"}

Reqs == {"r1"}

\* Requests that between them reach every event of the stream: a file, a
\* directory found by the stream, a miss.
ServerUrls == {<<"/", "docs">>, <<"/", "%64ocs">>, <<"/", "missing">>}

\* The connections of a server that holds two at a time; each carries one
\* request at a time.
Conns == {"r1", "r2"}

\* Requests that between them reach every outcome of the listener: a
\* rewrite to an index, a redirect with a query, a redirect followed by a
\* miss, a miss, an immutable asset, a directory found by the stream, a
\* rejected target, an absent url.
FewUrls ==
  {<<"/", "docs">>, <<"/", "docs", "/", "?", "q">>, <<"/", "empty", "/">>,
   <<"/", "missing">>, <<"/", "_astro", "/", "app.js">>, <<"/", "%64ocs">>,
   <<"/", "/">>, <<>>}

\* ------------------------------------------------------- the configuration
\* fileURLToPath(client): the client root, as the segments of an absolute path.
ClientRoot == <<"srv", "client">>

\* The configured base, the prefix removeBase strips.
BasePrefix == <<"/", "base">>

\* `/${assets}/`
assetsPrefix == <<"/", "_astro", "/">>

\* The directories and regular files on disk, as absolute paths.
Dirs ==
  {<<>>, <<"srv">>, ClientRoot,
   ClientRoot \o <<"docs">>, ClientRoot \o <<"empty">>,
   ClientRoot \o <<"_astro">>, ClientRoot \o <<".well-known">>}

Files ==
  {ClientRoot \o <<"docs", "index.html">>,
   ClientRoot \o <<"_astro", "app.js">>,
   ClientRoot \o <<".well-known", "app.js">>,
   ClientRoot \o <<".env">>}

\* ------------------------------------------------------- string operations
StartsWith(s, p) == Len(s) >= Len(p) /\ SubSeq(s, 1, Len(p)) = p

EndsWith(s, tok) == Len(s) > 0 /\ s[Len(s)] = tok

Includes(s, tok) == \E i \in 1..Len(s) : s[i] = tok

IndexOf(s, tok) ==
  IF Includes(s, tok)
  THEN CHOOSE i \in 1..Len(s) : s[i] = tok /\ \A j \in 1..(i - 1) : s[j] # tok
  ELSE 0

\* String.prototype.split(tok): every piece between occurrences of tok.
RECURSIVE Split(_, _)
Split(s, tok) ==
  LET i == IndexOf(s, tok)
  IN IF i = 0 THEN <<s>>
     ELSE <<SubSeq(s, 1, i - 1)>> \o Split(SubSeq(s, i + 1, Len(s)), tok)

\* The segments of a path: its tokens other than "/".
PathSegs(p) == SelectSeq(p, LAMBDA t : t # "/")

\* Dot-segment resolution of a list of segments below a stack of segments.
RECURSIVE Resolve(_, _)
Resolve(stack, segs) ==
  IF segs = <<>> THEN stack
  ELSE IF Head(segs) = ".."
       THEN Resolve(IF stack = <<>> THEN <<>>
                    ELSE SubSeq(stack, 1, Len(stack) - 1), Tail(segs))
       ELSE Resolve(Append(stack, Head(segs)), Tail(segs))

\* path.join(root, rel): the normalised absolute path.
PathJoin(root, rel) == Resolve(root, PathSegs(rel))

\* fs.lstatSync(p).isDirectory(), false when lstat throws.
LstatIsDirectory(p) == p \in Dirs

\* removeBase(pathname): the pathname without the configured base prefix.
removeBase(p) ==
  IF StartsWith(p, BasePrefix) THEN SubSeq(p, Len(BasePrefix) + 1, Len(p))
  ELSE p

\* ----------------------------------------------------------- URL handling
\* The pieces of a path between its "/" tokens, the empty piece before the
\* leading "/" dropped: "/a/b/" gives <<"a">>, <<"b">>, <<>>.
Pieces(p) == IF p = <<>> THEN << <<>> >> ELSE Tail(Split(p, "/"))

Pop(stack) == IF stack = <<>> THEN <<>> ELSE SubSeq(stack, 1, Len(stack) - 1)

\* The path state of the URL parser: ".." removes the last piece, "." is
\* skipped, and either leaves an empty piece behind when it ends the path.
RECURSIVE UrlPieces(_, _)
UrlPieces(stack, pieces) ==
  IF pieces = <<>> THEN stack
  ELSE LET piece == Head(pieces)
           last == Len(pieces) = 1
       IN IF piece = <<"..">>
          THEN UrlPieces(IF last THEN Append(Pop(stack), <<>>) ELSE Pop(stack),
                         Tail(pieces))
          ELSE IF piece = <<".">>
          THEN UrlPieces(IF last THEN Append(stack, <<>>) ELSE stack,
                         Tail(pieces))
          ELSE UrlPieces(Append(stack, piece), Tail(pieces))

RECURSIVE Render(_)
Render(pieces) ==
  IF pieces = <<>> THEN <<>>
  ELSE <<"/">> \o Head(pieces) \o Render(Tail(pieces))

RECURSIVE SkipSlashes(_)
SkipSlashes(p) ==
  IF p # <<>> /\ Head(p) = "/" THEN SkipSlashes(Tail(p)) ELSE p

\* new URL(pathname, `http://${host}:${port}`).pathname. The query is cut
\* off; an input that begins with "//" names an authority, and construction
\* throws (ok = FALSE) when that authority is empty.
URLPathname(p) ==
  LET q == IndexOf(p, "?")
      raw == IF q = 0 THEN p ELSE SubSeq(p, 1, q - 1)
      authority == StartsWith(raw, <<"/", "/">>)
      rest == SkipSlashes(raw)
      pathTokens == IF authority THEN Tail(rest) ELSE raw
      pieces == UrlPieces(<<>>, Pieces(pathTokens))
  IN IF authority /\ rest = <<>> THEN [ok |-> FALSE, value |-> <<>>]
     ELSE [ok |-> TRUE,
           value |-> IF pieces = <<>> THEN <<"/">> ELSE Render(pieces)]

\* Percent-escapes are looked at one token at a time.
MalformedEscapes == {"%E0%A4%A"}

\* encodeURI of one token: "%" is escaped as "%25".
EncodeURITok(t) ==
  CASE t = "%E0%A4%A" -> "%25E0%25A4%25A"
    [] t = "%64ocs" -> "%2564ocs"
    [] OTHER -> t

\* decodeURI / decodeURIComponent of one well-formed token.
DecodeURITok(t) ==
  CASE t = "%25E0%25A4%25A" -> "%E0%A4%A"
    [] t = "%2564ocs" -> "%64ocs"
    [] t = "%64ocs" -> "docs"
    [] OTHER -> t

encodeURI(s) == [i \in 1..Len(s) |-> EncodeURITok(s[i])]

\* decodeURI throws URIError (ok = FALSE) on a malformed escape.
decodeURI(s) ==
  IF \E i \in 1..Len(s) : s[i] \in MalformedEscapes
  THEN [ok |-> FALSE, value |-> <<>>]
  ELSE [ok |-> TRUE, value |-> [i \in 1..Len(s) |-> DecodeURITok(s[i])]]

\* parsePathname: ok = FALSE is the `undefined` of the catch block.
parsePathname(pathname) ==
  LET url == URLPathname(pathname)
  IN IF ~url.ok THEN [ok |-> FALSE, value |-> <<>>]
     ELSE decodeURI(encodeURI(url.value))

\* isImmutableAsset
isImmutableAsset(pathname) == StartsWith(pathname, assetsPrefix)

\* ------------------------------------------------------ the `send` stream
\* Names that containsDotFile takes for dotfiles: longer than one character
\* and beginning with ".".
DotNames == {".well-known", ".env"}

\* path.normalize of a relative path: ".." that cannot be resolved stays.
RECURSIVE NormalizeRel(_, _)
NormalizeRel(stack, segs) ==
  IF segs = <<>> THEN stack
  ELSE IF Head(segs) = ".." /\ stack # <<>> /\ stack[Len(stack)] # ".."
       THEN NormalizeRel(Pop(stack), Tail(segs))
       ELSE NormalizeRel(Append(stack, Head(segs)), Tail(segs))

\* The synchronous part of SendStream.pipe for the path and dotfiles option
\* given to send(): "error" when it emits 'error' at once (a path that does
\* not decode, a path that climbs out of the root, a denied dotfile),
\* otherwise the file it is about to stat, directly or as an index.
SendPipe(path, dotfiles) ==
  LET decoded == decodeURI(path)
      parts == NormalizeRel(<<>>, PathSegs(decoded.value))
  IN IF ~decoded.ok THEN [kind |-> "error", status |-> 400, file |-> <<>>]
     ELSE IF Includes(parts, "..")
     THEN [kind |-> "error", status |-> 403, file |-> <<>>]
     ELSE IF (\E i \in 1..Len(parts) : parts[i] \in DotNames)
               /\ dotfiles = "deny"
     THEN [kind |-> "error", status |-> 403, file |-> <<>>]
     ELSE IF EndsWith(path, "/")
     THEN [kind |-> "index", status |-> 200,
           file |-> ClientRoot \o parts \o <<"index.html">>]
     ELSE [kind |-> "file", status |-> 200, file |-> ClientRoot \o parts]

\* ------------------------------------------------------------ the response
\* A fresh http.ServerResponse.
NewRes ==
  [statusCode |-> 200, hasLocation |-> FALSE, Location |-> <<>>,
   cacheControl |-> FALSE, headersSent |-> FALSE, body |-> "none",
   ended |-> FALSE]

\* res.statusCode = 301; res.setHeader('Location', location)
SetRedirect(res, location) ==
  [res EXCEPT !.statusCode = 301, !.hasLocation = TRUE, !.Location = location]

\* res.writeHead(status); res.end(body)
Respond(res, status, body) ==
  [res EXCEPT !.statusCode = status, !.headersSent = TRUE, !.body = body,
              !.ended = TRUE]

\* ------------------------------------------------------------- the request
\* The state of one request: where its handling stands (pc), what the
\* listener computed for it (step: the outcome of the policy switch; lstat:
\* the directory check was made, on filePath), what the stream is looking up
\* (sendFile, as an index or not) and has opened (streamed), its response,
\* and what has been done to answer it (initiated: the response-initiating
\* actions, in order; handlerRes: the response as the handler received it;
\* fault: the stream reported an I/O fault or refused the request; threw: a
\* stream callback threw; listenerThrew: the listener itself threw).
Idle ==
  [pc |-> "idle", url |-> <<>>, urlPath |-> <<>>, urlQuery |-> <<>>,
   filePath |-> <<>>, lstat |-> FALSE, isDirectory |-> FALSE,
   policy |-> "none",
   step |-> [redirect |-> FALSE, Location |-> <<>>, pathname |-> <<>>],
   pathname |-> <<>>, encodedURI |-> <<>>,
   dotfiles |-> "none", sendFile |-> <<>>, sendIndex |-> FALSE,
   streamed |-> <<>>, forwardError |-> FALSE, fault |-> FALSE,
   res |-> NewRes, initiated |-> <<>>, handlerCalls |-> 0,
   handlerRes |-> NewRes, logged |-> 0, threw |-> FALSE,
   listenerThrew |-> FALSE]

\* handler(req, res): the rendering handler takes the response as it is.
CallHandler(q) ==
  [q EXCEPT !.pc = "done", !.handlerCalls = @ + 1, !.handlerRes = q.res,
            !.initiated = Append(@, "delegate")]

\* An 'error' listener that hands every error to the handler.
OnError_AlwaysDelegate(q) == CallHandler(q)

\* The 'error' listener of the stream.
OnError(q) ==
  IF q.forwardError
  THEN IF q.res.headersSent
       \* writeHead after the head was sent throws ERR_HTTP_HEADERS_SENT
       THEN [q EXCEPT !.pc = "done", !.logged = @ + 1, !.threw = TRUE]
       ELSE [q EXCEPT !.pc = "done", !.logged = @ + 1,
                      !.res = Respond(@, 500, "Internal server error"),
                      !.initiated = Append(@, "respond500")]
  ELSE CallHandler(q)

\* ------------------------------------------------------------ the listener
\* "?" + urlQuery when there is a query, "" otherwise.
QuerySuffix(urlQuery) ==
  IF urlQuery # <<>> THEN <<"?">> \o urlQuery ELSE <<>>

\* case "ignore" without its rewrite of a directory to its index.html.
IgnoreCase_NoRewrite(urlPath, isDirectory) == urlPath

\* case "ignore": the pathname it assigns.
IgnoreCase(urlPath, isDirectory) ==
  IF isDirectory /\ ~EndsWith(urlPath, "/")
  THEN urlPath \o <<"/", "index.html">>
  ELSE urlPath

\* case "never": whether it sets the redirect; it then falls through to
\* case "ignore", which assigns the pathname.
NeverRedirects(urlPath, isDirectory) == isDirectory /\ EndsWith(urlPath, "/")

\* case "always": whether it sets the redirect.
AlwaysRedirects(urlPath) == ~EndsWith(urlPath, "/")

\* The switch on trailingSlash: whether 301 and Location are set on the
\* response, the Location, and the pathname that goes on to the stream.
PolicySwitch(policy, urlPath, urlQuery, isDirectory) ==
  CASE policy = "never" ->
         [redirect |-> NeverRedirects(urlPath, isDirectory),
          Location |-> IF NeverRedirects(urlPath, isDirectory)
                       THEN SubSeq(urlPath, 1, Len(urlPath) - 1)
                              \o QuerySuffix(urlQuery)
                       ELSE <<>>,
          pathname |-> IgnoreCase(urlPath, isDirectory)]
    [] policy = "ignore" ->
         [redirect |-> FALSE, Location |-> <<>>,
          pathname |-> IgnoreCase(urlPath, isDirectory)]
    [] policy = "always" ->
         IF AlwaysRedirects(urlPath)
         THEN [redirect |-> TRUE,
               Location |-> urlPath \o <<"/">> \o QuerySuffix(urlQuery),
               pathname |-> urlPath \o <<"/">> \o QuerySuffix(urlQuery)]
         ELSE [redirect |-> FALSE, Location |-> <<>>, pathname |-> urlPath]

\* The dotfiles option given to send().
DotfilesOption(pathname) ==
  IF StartsWith(pathname, <<"/", ".well-known", "/">>) THEN "allow" ELSE "deny"

\* The listener from the policy switch on, for a request with a url.
Dispatch(q, policy) ==
  LET step == PolicySwitch(policy, q.urlPath, q.urlQuery, q.isDirectory)
      res1 == IF step.redirect THEN SetRedirect(q.res, step.Location)
              ELSE q.res
      init1 == IF step.redirect THEN Append(q.initiated, "redirect")
               ELSE q.initiated
      based == removeBase(step.pathname)
      pathname == IF q.urlQuery # <<>> /\ ~Includes(based, "?")
                  THEN based \o <<"?">> \o q.urlQuery
                  ELSE based
      encodedURI == parsePathname(pathname)
      q1 == [q EXCEPT !.policy = policy, !.step = step,
                      !.pathname = pathname,
                      !.res = res1, !.initiated = init1]
  IN IF ~encodedURI.ok \/ encodedURI.value = <<>>
     THEN [q1 EXCEPT !.pc = "done",
                     !.res = Respond(@, 400, "Bad request."),
                     !.initiated = Append(@, "respond400")]
     ELSE LET dotfiles == DotfilesOption(pathname)
              pipe == SendPipe(encodedURI.value, dotfiles)
              q2 == [q1 EXCEPT !.encodedURI = encodedURI.value,
                               !.dotfiles = dotfiles]
          IN IF pipe.kind = "error" THEN OnError(q2)
             ELSE [q2 EXCEPT !.pc = "stat", !.sendFile = pipe.file,
                             !.sendIndex = (pipe.kind = "index")]

\* A listener that hands the policy back and forth between never and
\* always from one request to the next.
AssignedTrailingSlash_Toggle(ts) ==
  CASE ts = "undefined" -> "ignore"
    [] ts = "never" -> "always"
    [] ts = "always" -> "never"
    [] OTHER -> ts

\* if (!trailingSlash) trailingSlash = 'ignore': the value the closure
\* variable holds from then on.
AssignedTrailingSlash(ts) == IF ts = "undefined" THEN "ignore" ELSE ts

\* The listener for a request with target url while the closure variable
\* trailingSlash holds ts: everything up to and including stream.pipe(res),
\* whose first checks are synchronous. A trailingSlash that matches no case
\* of the switch leaves pathname unassigned: the listener throws on it, in
\* removeBase or at the latest at pathname.startsWith.
HandleRequest(url, ts) ==
  IF url = <<>>
  THEN CallHandler([Idle EXCEPT !.url = url])
  ELSE LET parts == Split(url, "?")
           urlPath == parts[1]
           urlQuery == IF Len(parts) >= 2 THEN parts[2] ELSE <<>>
           filePath == PathJoin(ClientRoot, removeBase(urlPath))
           policy == AssignedTrailingSlash(ts)
           q == [Idle EXCEPT !.url = url, !.urlPath = urlPath,
                             !.urlQuery = urlQuery,
                             !.filePath = filePath, !.lstat = TRUE,
                             !.isDirectory = LstatIsDirectory(filePath)]
       IN IF policy \in {"never", "ignore", "always"}
          THEN Dispatch(q, policy)
          ELSE [q EXCEPT !.pc = "done", !.policy = policy,
                         !.listenerThrew = TRUE]

\* The listener runs for an incoming request on an open connection, its
\* target taken from urls.
ListenerOn(r, urls) ==
  /\ req[r].pc = "idle"
  /\ server.conns[r] = "open"
  /\ \E url \in urls :
       /\ req' = [req EXCEPT ![r] = HandleRequest(url, trailingSlash)]
       /\ trailingSlash' = IF url = <<>> THEN trailingSlash
                           ELSE AssignedTrailingSlash(trailingSlash)
  /\ UNCHANGED server

Listener(r) == ListenerOn(r, Urls)

\* ------------------------------------------------------- the stream events
\* fs.stat finds a regular file: 'file', then 'headers'; then send() either
\* fails the request's preconditions or range (an 'error' after 'file') or
\* opens the read stream.
StatFile(r) ==
  /\ req[r].pc = "stat"
  /\ req[r].sendFile \in Files
  /\ \E refused \in BOOLEAN :
       LET q == [req[r] EXCEPT
                   !.forwardError = TRUE,
                   !.res.cacheControl = isImmutableAsset(req[r].encodedURI)]
       IN req' = [req EXCEPT ![r] =
                    IF refused THEN OnError([q EXCEPT !.fault = TRUE])
                    ELSE [q EXCEPT !.pc = "streaming",
                                   !.streamed = req[r].sendFile]]
  /\ UNCHANGED <<trailingSlash, server>>

\* The Location of the 'directory' listener.
DirectoryLocation(url) ==
  IF Includes(url, "?")
  THEN LET parts == Split(url, "?")
       IN parts[1] \o <<"/", "?">> \o parts[2]
  ELSE url \o <<"/">>

\* fs.stat of the path itself finds a directory: 'directory'.
StatDirectory(r) ==
  /\ req[r].pc = "stat"
  /\ ~req[r].sendIndex
  /\ req[r].sendFile \in Dirs
  /\ req' = [req EXCEPT ![r] =
       [@ EXCEPT !.pc = "done",
                 !.res = [SetRedirect(@, DirectoryLocation(req[r].url))
                            EXCEPT !.headersSent = TRUE, !.body = "location",
                                   !.ended = TRUE],
                 !.initiated = Append(@, "redirect")]]
  /\ UNCHANGED <<trailingSlash, server>>

\* fs.stat finds nothing to send: error(404) before any 'file'.
StatMiss(r) ==
  /\ req[r].pc = "stat"
  /\ req[r].sendFile \notin Files
  /\ req[r].sendIndex \/ req[r].sendFile \notin Dirs
  /\ req' = [req EXCEPT ![r] = OnError(@)]
  /\ UNCHANGED <<trailingSlash, server>>

\* fs.stat fails for another reason (EACCES, EIO): error(500) before 'file'.
StatFault(r) ==
  /\ req[r].pc = "stat"
  /\ req' = [req EXCEPT ![r] = OnError([@ EXCEPT !.fault = TRUE])]
  /\ UNCHANGED <<trailingSlash, server>>

\* The first chunk of the file is piped: the head goes out with the status
\* and headers as they stand, the body follows.
StreamData(r) ==
  /\ req[r].pc = "streaming"
  /\ ~req[r].res.headersSent
  /\ req' = [req EXCEPT ![r] =
       [@ EXCEPT !.res.headersSent = TRUE, !.res.body = "file",
                 !.initiated = Append(@, "stream")]]
  /\ UNCHANGED <<trailingSlash, server>>

\* The read stream ends: the response is ended.
StreamEnd(r) ==
  /\ req[r].pc = "streaming"
  /\ req' = [req EXCEPT ![r] =
       [@ EXCEPT !.pc = "done", !.res.headersSent = TRUE,
                 !.res.body = "file", !.res.ended = TRUE,
                 !.initiated = IF req[r].res.headersSent THEN @
                               ELSE Append(@, "stream")]]
  /\ UNCHANGED <<trailingSlash, server>>

\* The read stream fails: error(500) after 'file'.
StreamError(r) ==
  /\ req[r].pc = "streaming"
  /\ req' = [req EXCEPT ![r] = OnError([@ EXCEPT !.fault = TRUE])]
  /\ UNCHANGED <<trailingSlash, server>>

\* The request is over; the next one on the connection can be taken.
Finish(r) ==
  /\ req[r].pc = "done"
  /\ req' = [req EXCEPT ![r] = Idle]
  /\ UNCHANGED <<trailingSlash, server>>

\* ------------------------------------------------------------ the server
\* A promise that takes every outcome it is given.
Settle_Overwrite(p, outcome) == outcome

\* Promise resolve / reject: only a pending promise takes the outcome.
Settle(p, outcome) == IF p = "pending" THEN outcome ELSE p

\* A choice of transport that goes on in plain HTTP when the TLS material
\* cannot be read.
ServerKind_Fallback(env) ==
  IF env.cert /\ env.key /\ env.readable THEN "https" ELSE "http"

\* The choice of transport: TLS when both SERVER_CERT_PATH and
\* SERVER_KEY_PATH are set; fs.readFileSync throws when a file cannot be read.
ServerKind(env) ==
  IF env.cert /\ env.key
  THEN IF env.readable THEN "https" ELSE "throw"
  ELSE "http"

\* The process before createServer is called with a trailingSlash argument:
\* its environment (cert, key: the variables are set; readable: the files
\* they name can be read) and its connection table.
NoServer(policy, env, ids) ==
  [configured |-> policy, env |-> env, kind |-> "none", state |-> "none",
   listens |-> 0, promises |-> 0, closedP |-> "none", closedReturned |-> {},
   emitted |-> <<>>, closePending |-> FALSE, stops |-> <<>>,
   conns |-> [c \in ids |-> "none"]]

\* What createServer builds: one server of the chosen kind, listen() called
\* on it, the closed promise (promise 1) pending.
CreatedServer(sv) ==
  [sv EXCEPT !.kind = ServerKind(sv.env), !.state = "created",
             !.listens = @ + 1, !.promises = 1, !.closedP = "pending"]

\* A plain server that listens, with its connections open.
RunningServer(policy, ids) ==
  [CreatedServer(NoServer(policy,
                          [cert |-> FALSE, key |-> FALSE, readable |-> FALSE],
                          ids))
     EXCEPT !.state = "listening", !.conns = [c \in ids |-> "open"]]

\* createServer: it throws when the TLS material cannot be read.
CreateServer ==
  /\ server.state = "none"
  /\ server' = IF ServerKind(server.env) = "throw"
               THEN [server EXCEPT !.state = "failed"]
               ELSE CreatedServer(server)
  /\ UNCHANGED <<trailingSlash, req>>

Errors(sv) == Len(SelectSeq(sv.emitted, LAMBDA e : e = "error"))

\* listen() succeeds.
Listening ==
  /\ server.state = "created"
  /\ Errors(server) = 0
  /\ server' = [server EXCEPT !.state = "listening"]
  /\ UNCHANGED <<trailingSlash, req>>

\* The server emits 'error' (listen fails, or a fault while it is up): the
\* listener added on 'error' rejects the closed promise.
ServerError ==
  /\ server.state \in {"created", "listening", "closing"}
  /\ Errors(server) < MaxErrors
  /\ server' = [server EXCEPT !.emitted = Append(@, "error"),
                              !.closedP = Settle(@, "rejected")]
  /\ UNCHANGED <<trailingSlash, req>>

\* A client connects.
Connect(c) ==
  /\ server.state = "listening"
  /\ server.conns[c] = "none"
  /\ server' = [server EXCEPT !.conns[c] = "open"]
  /\ UNCHANGED <<trailingSlash, req>>

\* The client ends its connection; a request in flight on it is abandoned.
ClientHangup(c) ==
  /\ server.conns[c] = "open"
  /\ server' = [server EXCEPT !.conns[c] = "none"]
  /\ req' = [req EXCEPT ![c] = Idle]
  /\ UNCHANGED trailingSlash

\* closed(): returns the promise made by createServer, promise 1.
CallClosed ==
  /\ server.state \notin {"none", "failed"}
  /\ server' = [server EXCEPT !.closedReturned = @ \cup {1}]
  /\ UNCHANGED <<trailingSlash, req>>

\* A stop that leaves the connections to end by themselves.
DestroyAll_Graceful(conns) == conns

\* server.destroy of server-destroy: every tracked connection is destroyed.
DestroyAll(conns) ==
  [c \in DOMAIN conns |-> IF conns[c] = "open" THEN "destroyed" ELSE conns[c]]

\* The callback of httpServer.destroy: reject(err) or resolve(undefined).
StopOutcome(err) == IF err THEN "rejected" ELSE "resolved"

\* stop(): a new promise; httpServer.destroy closes the server and destroys
\* the connections. close() on a server that is not listening hands
\* ERR_SERVER_NOT_RUNNING to the callback when 'close' is emitted.
Stop ==
  /\ \/ server.state \in {"listening", "closing", "closed"}
     \/ server.state = "created" /\ Errors(server) > 0
  /\ Len(server.stops) < MaxStops
  /\ server' = [server EXCEPT
       !.promises = @ + 1,
       !.stops = Append(@, [p |-> "pending",
                            err |-> server.state # "listening"]),
       !.state = IF @ = "listening" THEN "closing" ELSE @,
       !.closePending = TRUE,
       !.conns = DestroyAll(@)]
  /\ UNCHANGED <<trailingSlash, req>>

\* A destroyed socket closes; the request on it is cut off.
SocketDestroyed(c) ==
  /\ server.conns[c] = "destroyed"
  /\ server' = [server EXCEPT !.conns[c] = "none"]
  /\ req' = [req EXCEPT ![c] = Idle]
  /\ UNCHANGED trailingSlash

\* The server emits 'close' once a close() is pending and no connection is
\* left: the closed promise is resolved and the callbacks of destroy run.
ServerClose ==
  /\ server.closePending
  /\ \A c \in DOMAIN server.conns : server.conns[c] = "none"
  /\ server' = [server EXCEPT
       !.emitted = Append(@, "close"),
       !.closedP = Settle(@, "resolved"),
       !.stops = [i \in 1..Len(@) |->
                    [@[i] EXCEPT !.p = Settle(@, StopOutcome(server.stops[i].err))]],
       !.state = IF @ = "closing" THEN "closed" ELSE @,
       !.closePending = FALSE]
  /\ UNCHANGED <<trailingSlash, req>>

\* ------------------------------------------------------- the specification
Init ==
  /\ trailingSlash \in Policies
  /\ req = [r \in Reqs |-> Idle]
  /\ server = RunningServer(trailingSlash, Reqs)

Next ==
  \E r \in Reqs :
    \/ Listener(r)
    \/ StatFile(r)
    \/ StatDirectory(r)
    \/ StatMiss(r)
    \/ StatFault(r)
    \/ StreamData(r)
    \/ StreamEnd(r)
    \/ StreamError(r)
    \/ Finish(r)

Spec == Init /\ [][Next]_vars

\* The same server, created with a trailingSlash that skipped validation.
InitUnvalidated ==
  /\ trailingSlash \in Policies \cup {"sometimes"}
  /\ req = [r \in Reqs |-> Idle]
  /\ server = RunningServer(trailingSlash, Reqs)

SpecUnvalidated == InitUnvalidated /\ [][Next]_vars

\* Two connections of one listening server, each with a request of FewUrls.
InitConcurrent ==
  /\ trailingSlash \in Policies
  /\ req = [r \in Conns |-> Idle]
  /\ server = RunningServer(trailingSlash, Conns)

\* A step of the request on connection r, its target taken from urls.
RequestStep(r, urls) ==
  \/ ListenerOn(r, urls)
  \/ StatFile(r)
  \/ StatDirectory(r)
  \/ StatMiss(r)
  \/ StatFault(r)
  \/ StreamData(r)
  \/ StreamEnd(r)
  \/ StreamError(r)
  \/ Finish(r)

NextConcurrent == \E r \in Conns : RequestStep(r, FewUrls)

SpecConcurrent == InitConcurrent /\ [][NextConcurrent]_vars

\* The life of a server from before createServer to after stop().
Envs == [cert : BOOLEAN, key : BOOLEAN, readable : BOOLEAN]

InitServer ==
  /\ trailingSlash = "ignore"
  /\ req = [r \in Conns |-> Idle]
  /\ \E env \in Envs : server = NoServer(trailingSlash, env, Conns)

NextServer ==
  \/ CreateServer
  \/ Listening
  \/ ServerError
  \/ CallClosed
  \/ Stop
  \/ ServerClose
  \/ \E c \in Conns :
       \/ Connect(c)
       \/ ClientHangup(c)
       \/ SocketDestroyed(c)
       \/ RequestStep(c, ServerUrls)

SpecServer == InitServer /\ [][NextServer]_vars

\* The runtime closes a destroyed socket and emits a pending 'close'.
SpecServerFair ==
  /\ SpecServer
  /\ \A c \in Conns : WF_vars(SocketDestroyed(c))
  /\ WF_vars(ServerClose)

\* ---------------------------------------------------------------- claims
HasSlash(q) == EndsWith(q.urlPath, "/")

\* The stream looked for a file and found none, or the request had no url.
IsMiss(q) ==
  \/ q.url = <<>>
  \/ /\ q.sendFile # <<>>
     /\ q.sendFile \notin Files
     /\ q.sendIndex \/ q.sendFile \notin Dirs
     /\ ~q.fault

\* C1: every request handled to its end has had exactly one
\* response-initiating action: one direct response (400, 500 or a streamed
\* file), one redirect, or one delegation to the rendering handler.
C1_ExactlyOneInitiation ==
  \A r \in Reqs : req[r].pc = "done" => Len(req[r].initiated) = 1

\* C2: on a miss, under every policy, and for a request without url, the
\* handler is called once with a response the core has not touched: no
\* status, no header, no body.
C2_HandlerGetsUntouchedResponse ==
  \A r \in Reqs :
    (req[r].pc = "done" /\ IsMiss(req[r]))
      => req[r].handlerCalls = 1 /\ req[r].handlerRes = NewRes

\* The decision of the table of section 4.2 for a policy, a path and the
\* directory check.
TableDecision(policy, urlPath, urlQuery, isDirectory) ==
  LET hasSlash == EndsWith(urlPath, "/")
      rewrite == [kind |-> "rewrite", Location |-> <<>>,
                  pathname |-> urlPath \o <<"/", "index.html">>]
      serve == [kind |-> "serve", Location |-> <<>>, pathname |-> urlPath]
  IN CASE policy = "never" /\ isDirectory /\ hasSlash ->
            [kind |-> "redirect",
             Location |-> SubSeq(urlPath, 1, Len(urlPath) - 1)
                            \o QuerySuffix(urlQuery),
             pathname |-> urlPath]
       [] policy = "always" /\ isDirectory /\ ~hasSlash ->
            [kind |-> "redirect",
             Location |-> urlPath \o <<"/">> \o QuerySuffix(urlQuery),
             pathname |-> urlPath \o <<"/">> \o QuerySuffix(urlQuery)]
       [] policy \in {"never", "ignore"} /\ isDirectory /\ ~hasSlash -> rewrite
       [] OTHER -> serve

\* The decision the policy switch took for a request.
StepDecision(q) ==
  [kind |-> IF q.step.redirect THEN "redirect"
            ELSE IF q.step.pathname = q.urlPath \o <<"/", "index.html">>
            THEN "rewrite"
            ELSE "serve",
   Location |-> q.step.Location,
   pathname |-> q.step.pathname]

\* C3: for every policy, trailing slash and directory check, the policy
\* switch takes the decision of the table of section 4.2.
C3_PolicyTable ==
  \A r \in Reqs :
    req[r].lstat
      => StepDecision(req[r])
           = TableDecision(req[r].policy, req[r].urlPath, req[r].urlQuery,
                           req[r].isDirectory)

\* The raw path of the request has a malformed percent-escape.
HasMalformedEscape(q) ==
  \E i \in 1..Len(q.urlPath) : q.urlPath[i] \in MalformedEscapes

\* C4: a request whose raw target has a malformed percent-escape ends with
\* 400 "Bad request."; the handler is not called and no file is streamed.
C4_MalformedEscapeIs400 ==
  \A r \in Reqs :
    (req[r].pc = "done" /\ HasMalformedEscape(req[r]))
      => /\ req[r].res.statusCode = 400
         /\ req[r].res.body = "Bad request."
         /\ req[r].handlerCalls = 0
         /\ req[r].streamed = <<>>

\* The file has a dot-prefixed segment below the client root.
IsDotfile(file) == \E i \in 1..Len(file) : file[i] \in DotNames

\* C5: a dotfile is streamed only when the canonical pathname that is
\* served begins with /.well-known/.
C5_DotfilesOnlyUnderWellKnown ==
  \A r \in Reqs :
    (req[r].streamed # <<>> /\ IsDotfile(req[r].streamed))
      => StartsWith(req[r].encodedURI, <<"/", ".well-known", "/">>)

\* C6: every filesystem path resolved for a request, the one of the
\* directory check and the one the stream looks up, is inside the client
\* root.
C6_PathsInsideClientRoot ==
  \A r \in Reqs :
    /\ req[r].lstat => StartsWith(req[r].filePath, ClientRoot)
    /\ req[r].sendFile # <<>> => StartsWith(req[r].sendFile, ClientRoot)

\* The request names an existing file below the immutable-assets prefix.
IsExistingAsset(q) ==
  /\ q.lstat
  /\ ~HasSlash(q)
  /\ q.filePath \in Files
  /\ parsePathname(removeBase(q.urlPath)).ok
  /\ isImmutableAsset(parsePathname(removeBase(q.urlPath)).value)

\* C7: a streamed response carries the immutable Cache-Control exactly when
\* the canonical pathname is below the assets prefix, from before its first
\* body byte on; and under every policy a request for an existing file
\* below the prefix ends as 200 with that header.
C7_ImmutableCacheControl ==
  \A r \in Reqs :
    /\ req[r].res.body = "file"
         => (req[r].res.cacheControl <=> isImmutableAsset(req[r].encodedURI))
    /\ (req[r].pc = "done" /\ IsExistingAsset(req[r]) /\ ~req[r].fault)
         => /\ req[r].res.statusCode = 200
            /\ req[r].res.cacheControl
            /\ req[r].res.body = "file"
            /\ req[r].handlerCalls = 0

\* C8: under never, a request for a directory with a trailing slash ends as
\* a 301 of the core whose Location is the path without the slash,
\* whatever the directory contains.
C8_NeverRedirectsDirectorySlash ==
  \A r \in Reqs :
    (/\ req[r].pc = "done"
     /\ req[r].policy = "never"
     /\ HasSlash(req[r])
     /\ req[r].isDirectory
     /\ ~req[r].fault)
      => /\ req[r].res.statusCode = 301
         /\ req[r].res.hasLocation
         /\ req[r].res.Location
              = SubSeq(req[r].urlPath, 1, Len(req[r].urlPath) - 1)
                  \o QuerySuffix(req[r].urlQuery)
         /\ req[r].handlerCalls = 0

\* C9: under always, a request without a trailing slash ends as a 301 of
\* the core to the path with "/" appended, and for a request with a
\* trailing slash the policy switch sets neither 301 nor Location.
C9_AlwaysRedirectsNoSlash ==
  \A r \in Reqs :
    (req[r].pc = "done" /\ req[r].policy = "always" /\ ~req[r].fault)
      => IF HasSlash(req[r])
         THEN ~req[r].step.redirect
         ELSE /\ req[r].res.statusCode = 301
              /\ req[r].res.hasLocation
              /\ req[r].res.Location
                   = req[r].urlPath \o <<"/">> \o QuerySuffix(req[r].urlQuery)
              /\ req[r].handlerCalls = 0

\* The request is for a directory that holds an index.html, without a
\* trailing slash.
IsIndexedDirectoryNoSlash(q) ==
  /\ q.lstat
  /\ ~HasSlash(q)
  /\ q.isDirectory
  /\ (q.filePath \o <<"index.html">>) \in Files

FullQuery(url) ==
  IF Includes(url, "?")
  THEN SubSeq(url, IndexOf(url, "?") + 1, Len(url))
  ELSE <<>>

\* The path a redirect of the policy step points to: the slash removed
\* under never, added under always.
RecomputedPath(q) ==
  IF q.policy = "never" THEN SubSeq(q.urlPath, 1, Len(q.urlPath) - 1)
  ELSE q.urlPath \o <<"/">>

\* C11: the query of a request is everything after the first "?" of its
\* target, and a 301 of the policy step has as Location the recomputed path
\* followed by "?" and that whole query when there is one, by nothing
\* otherwise.
C11_RedirectKeepsWholeQuery ==
  \A r \in DOMAIN req :
    /\ req[r].lstat => req[r].urlQuery = FullQuery(req[r].url)
    /\ req[r].step.redirect
         => /\ req[r].res.hasLocation
            /\ req[r].step.Location
                 = RecomputedPath(req[r])
                     \o (IF Includes(req[r].url, "?")
                         THEN <<"?">> \o FullQuery(req[r].url)
                         ELSE <<>>)

\* C12: the rendering handler is called at most once for a request, and
\* never once the stream has identified a file or response bytes have gone
\* out.
C12_HandlerAtMostOnceBeforeFile ==
  \A r \in DOMAIN req :
    /\ req[r].handlerCalls <= 1
    /\ req[r].handlerCalls > 0
         => /\ ~req[r].forwardError
            /\ req[r].streamed = <<>>
            /\ ~req[r].handlerRes.headersSent
            /\ req[r].res.body = "none"

\* The stream reported a miss before any file and the handler took over.
C12_Witness ==
  \E r \in DOMAIN req :
    /\ req[r].pc = "done"
    /\ req[r].sendFile # <<>>
    /\ req[r].handlerCalls = 1
    /\ req[r].initiated = <<"delegate">>

\* The stream emitted 'error' for the request: its listener logged and
\* answered, or called the handler.
HadStreamError(q) ==
  /\ q.pc = "done"
  /\ q.url # <<>>
  /\ q.logged > 0 \/ q.handlerCalls > 0

\* The core answered 500 "Internal server error" and logged the error.
Answered500(q) ==
  /\ q.res.statusCode = 500
  /\ q.res.body = "Internal server error"
  /\ q.res.ended
  /\ q.logged > 0

\* C17: a stream error is answered by the core with a logged 500 exactly
\* when the stream had emitted 'file' for the request; otherwise the
\* handler is called and the core answers no 500.
C17_Error500IffFileSeen ==
  \A r \in DOMAIN req :
    HadStreamError(req[r])
      => /\ Answered500(req[r]) <=> req[r].forwardError
         /\ ~req[r].forwardError
              => req[r].handlerCalls = 1 /\ req[r].res.statusCode # 500

\* C18: a stream error after the head of the file has gone out is only
\* logged, without a second writeHead or end on the response; the 500 is
\* written only while nothing has been sent.
C18_ErrorAfterHeadersOnlyLogs ==
  \A r \in DOMAIN req :
    /\ ~req[r].threw
    /\ Includes(req[r].initiated, "respond500")
         => ~Includes(req[r].initiated, "stream")

\* C19: a request answered 400 for a target that fails canonicalization has
\* had no directory check and no lookup by the stream, and its response
\* carries no redirect status set earlier and no Location.
C19_BadRequestBeforeFilesystem ==
  \A r \in DOMAIN req :
    Includes(req[r].initiated, "respond400")
      => /\ ~req[r].lstat
         /\ req[r].sendFile = <<>>
         /\ ~req[r].res.hasLocation
         /\ ~req[r].step.redirect

\* C13: when the trailingSlash given to createServer is absent or is none
\* of never, ignore, always, every request is handled as under ignore and
\* the listener does not throw.
C13_AbsentOrInvalidIsIgnore ==
  \A r \in DOMAIN req :
    (req[r].lstat /\ server.configured \notin {"never", "ignore", "always"})
      => /\ ~req[r].listenerThrew
         /\ req[r].policy = "ignore"
         /\ req[r].step = PolicySwitch("ignore", req[r].urlPath,
                                       req[r].urlQuery, req[r].isDirectory)

\* The outcome that the first 'close' or 'error' event of a server decides.
FirstOutcome(emitted) ==
  IF emitted = <<>> THEN "pending"
  ELSE IF Head(emitted) = "close" THEN "resolved"
  ELSE "rejected"

\* C14: closed() returns the one promise made by createServer on every
\* call; that promise resolves when the server emits 'close', rejects when
\* it emits 'error' before, and once settled keeps its outcome whatever the
\* server emits later.
C14_ClosedSettlesOnce ==
  /\ [](/\ server.closedReturned \subseteq {1}
        /\ server.state \notin {"none", "failed"}
             => server.closedP = FirstOutcome(server.emitted))
  /\ [][server.closedP \in {"resolved", "rejected"}
          => server'.closedP = server.closedP]_vars

\* The server emitted 'error', then 'close', and closed() was called.
C14_Witness ==
  /\ server.emitted = <<"error", "close">>
  /\ server.closedP = "rejected"
  /\ server.closedReturned = {1}

\* The place of a state in Created -> Listening -> Closing -> Closed.
Rank(state) ==
  CASE state = "created" -> 1
    [] state = "listening" -> 2
    [] state = "closing" -> 3
    [] state = "closed" -> 4
    [] OTHER -> 0

\* C15: stop() on a listening server destroys every open connection at
\* once, idle or with a file stream in flight; the server never moves
\* backwards in Created -> Listening -> Closing -> Closed and, once
\* Closing, eventually is Closed; the promise of every stop() eventually
\* settles, rejected when destroy reports an error and resolved otherwise.
C15_StopDestroysAndCloses ==
  /\ [][Len(server'.stops) > Len(server.stops)
          => \A c \in DOMAIN server.conns : server'.conns[c] # "open"]_vars
  /\ [][Rank(server'.state) >= Rank(server.state)]_vars
  /\ [](\A i \in 1..Len(server.stops) :
          server.stops[i].p \in
            {"pending", IF server.stops[i].err THEN "rejected" ELSE "resolved"})
  /\ (server.state = "closing") ~> (server.state = "closed")
  /\ \A i \in 1..MaxStops :
       (Len(server.stops) >= i)
         ~> (Len(server.stops) >= i /\ server.stops[i].p # "pending")

\* stop() has just destroyed a connection with a file stream in flight and
\* an idle one.
C15_Witness ==
  /\ server.state = "closing"
  /\ server.closePending
  /\ server.conns["r1"] = "destroyed"
  /\ req["r1"].pc = "streaming"
  /\ server.conns["r2"] = "destroyed"
  /\ req["r2"].pc = "idle"

\* C16: createServer makes one server and calls listen on it once; the
\* server is TLS exactly when the certificate path and the key path are
\* both set; when both are set and a file cannot be read, createServer
\* fails and no server exists, plain or TLS.
C16_TlsIffBothSupplied ==
  /\ server.state \notin {"none", "failed"}
       => /\ server.listens = 1
          /\ server.kind \in {"http", "https"}
          /\ server.kind = "https" <=> (server.env.cert /\ server.env.key)
  /\ (server.env.cert /\ server.env.key /\ ~server.env.readable)
       => /\ server.state \in {"none", "failed"}
          /\ server.kind = "none"
          /\ server.listens = 0
          /\ \A c \in DOMAIN server.conns : server.conns[c] = "none"

\* createServer failed on TLS material that cannot be read.
C16_Witness ==
  /\ server.state = "failed"
  /\ server.env.cert /\ server.env.key /\ ~server.env.readable

\* The policy in force for a server created with the value configured.
EffectivePolicy(configured) ==
  IF configured = "undefined" THEN "ignore" ELSE configured

\* What the client and the handler see of a request.
Outcome(q) ==
  [status |-> q.res.statusCode, hasLocation |-> q.res.hasLocation,
   Location |-> q.res.Location, cacheControl |-> q.res.cacheControl,
   handler |-> q.handlerCalls]

\* The outcome of a request that the listener left as q, handled alone on
\* a stream without faults: the file is served with the status and headers
\* the listener set, a directory found by the stream is redirected, and
\* anything else goes to the handler.
AloneOutcome(q) ==
  IF q.pc = "done" THEN Outcome(q)
  ELSE IF q.sendFile \in Files
  THEN [Outcome(q) EXCEPT !.cacheControl = isImmutableAsset(q.encodedURI)]
  ELSE IF ~q.sendIndex /\ q.sendFile \in Dirs
  THEN [Outcome(q) EXCEPT !.status = 301, !.hasLocation = TRUE,
                          !.Location = DirectoryLocation(q.url)]
  ELSE [Outcome(q) EXCEPT !.handler = 1]

\* What the listener computes for a request.
Computed(q) ==
  [policy |-> q.policy, step |-> q.step, pathname |-> q.pathname,
   encodedURI |-> q.encodedURI, dotfiles |-> q.dotfiles,
   sendFile |-> q.sendFile, sendIndex |-> q.sendIndex]

\* C20: with two requests in flight on one server, under every
\* interleaving of their stream events, the policy and the pathname of a
\* request are those it gets when handled alone, its outcome (status,
\* Location, Cache-Control, handler called or not) is the one it has alone,
\* a step of one request changes nothing of the other, and forwardError is
\* set for a request only by its own 'file' event.
C20_RequestsIndependent ==
  /\ [](\A r \in DOMAIN req :
          req[r].pc # "idle"
            => LET alone == HandleRequest(req[r].url,
                                          EffectivePolicy(server.configured))
               IN /\ Computed(req[r]) = Computed(alone)
                  /\ (req[r].pc = "done" /\ ~req[r].fault)
                       => Outcome(req[r]) = AloneOutcome(alone))
  /\ [][\A r \in DOMAIN req :
          /\ req'[r] # req[r]
               => \A o \in DOMAIN req \ {r} : req'[o] = req[o]
          /\ (req'[r].forwardError /\ ~req[r].forwardError)
               => req[r].pc = "stat" /\ req[r].sendFile \in Files]_vars

\* One request has been handed to the handler while the file of the other,
\* taken later under the policy the first one assigned, is being streamed.
C20_Witness ==
  /\ server.configured = "undefined"
  /\ req["r1"].pc = "done"
  /\ req["r1"].handlerCalls = 1
  /\ req["r2"].pc = "streaming"
  /\ req["r2"].forwardError
  /\ req["r2"].url # req["r1"].url

\* The path of a Location: what stands before its first "?".
LocationPath(location) == Split(location, "?")[1]

\* C21: under never no response carries a Location whose path ends in "/":
\* a path that the stream finds to be a directory was classified as a
\* directory by the directory check, and the 'directory' listener (301 to
\* the target plus "/") never runs.
C21_NeverNoSlashLocation ==
  \A r \in DOMAIN req :
    req[r].policy = "never"
      => /\ req[r].res.hasLocation
              => ~EndsWith(LocationPath(req[r].res.Location), "/")
         /\ (req[r].pc = "stat" /\ ~req[r].sendIndex
               /\ req[r].sendFile \in Dirs)
              => req[r].isDirectory
         /\ req[r].res.body # "location"

\* The request, as the listener left it, is answered by a redirect: one of
\* the policy step, or one of the 'directory' listener to come.
Redirects(q) ==
  \/ q.step.redirect
  \/ q.pc = "stat" /\ ~q.sendIndex /\ q.sendFile \in Dirs

\* C22: a 301 of the core has a Location that is not empty and is not the
\* request target, and the request for that Location under the same policy
\* is not answered by a redirect: chains of redirects have length one.
C22_RedirectChainsEndAtOnce ==
  \A r \in DOMAIN req :
    (req[r].res.statusCode = 301 /\ req[r].res.hasLocation)
      => /\ req[r].res.Location # <<>>
         /\ req[r].res.Location # req[r].url
         /\ req[r].res.Location # <<>>
              => ~Redirects(HandleRequest(req[r].res.Location, req[r].policy))

====
